---- MODULE Spec2Model ----
(***************************************************************************)
(* HashMap (hashMap.js) and HashSet (hashSet.js): two chained hash tables  *)
(* with automatic doubling of the bucket array.                            *)
(*                                                                         *)
(* An object is a record of its fields.  storage is the JS array: a        *)
(* function over the array indices 0..capacity-1 and over the one          *)
(* non-index property a hash code can address, "NaN" (kept at NaN).        *)
(* A HashMap bucket is its linked list, written as the sequence of its     *)
(* nodes from head to tail; the empty sequence is the empty slot           *)
(* (undefined or null).  A HashSet bucket is undefined or a JS Set, whose  *)
(* elements are kept in insertion order.                                   *)
(*                                                                         *)
(* A string key is the sequence of its char codes.                         *)
(***************************************************************************)
EXTENDS Integers, Sequences, FiniteSets, TLC

(***************************************************************************)
(* Bounds of the model and the inputs drawn within them.                   *)
(***************************************************************************)
\* Largest initialCapacity handed to the constructors.
MaxInitialCapacity == 4
\* Length of the long key (a key of 207 or more chars 'z').
LongKeyLen == 207

InitialCapacities == {1, MaxInitialCapacity}

\* Number of one-char keys of the threshold scenario ("a", "b", ...).
NumScenarioKeys == 13

\* loadFactor as a fraction <<numerator, denominator>>: 0.25, 0.75 and 1.
LoadFactors == {<<1, 4>>, <<3, 4>>, <<1, 1>>}

\* "a", "e" and "i": char codes 97, 101, 105 share a bucket for capacity 1, 2, 4.
ShortKeys == {<<97>>, <<101>>, <<105>>}
LongKey == [i \in 1..LongKeyLen |-> 122]
Keys == ShortKeys \cup {LongKey}

\* The keys of the threshold scenario: 13 keys of one char, and the long key.
ScenarioKeys == {<<96 + n>> : n \in 1..NumScenarioKeys} \cup {LongKey}
AllKeys == Keys \cup ScenarioKeys

\* JS null, which is a value like any other for set(key, value).
null == "null"
Values == {null, "red"}

(***************************************************************************)
(* JS numbers.  A hash code is an IEEE-754 double: here sig * 2^exp with   *)
(* sig below SigLimit, or Infinity once the magnitude reaches 2^MaxExp.    *)
(* Every hash code below SigLimit is exact, as every double below 2^53 is  *)
(* (SigBits is 26, not 53, so that 31 * sig stays within 32-bit integers); *)
(* above it the low bits are rounded away.  No key of the model has a      *)
(* rounded finite hash code: the short keys are exact, the long key        *)
(* overflows.                                                              *)
(***************************************************************************)
SigBits == 26
SigLimit == 2^SigBits
MaxExp == 1024
NaN == -1

Finite(n) == [inf |-> FALSE, sig |-> n, exp |-> 0]
Infinity == [inf |-> TRUE, sig |-> 0, exp |-> 0]

RECURSIVE NumRound(_, _)
NumRound(sig, exp) ==
    IF sig >= SigLimit THEN NumRound(sig \div 2, exp + 1)
    ELSE IF exp > 0 /\ exp + SigBits > MaxExp THEN Infinity
    ELSE [inf |-> FALSE, sig |-> sig, exp |-> exp]

\* a * x + c in doubles, for integers 0 <= a, c < 2^16
NumMulAdd(a, x, c) ==
    IF x.inf THEN Infinity
    ELSE LET p == NumRound(a * x.sig, x.exp)
         IN  IF p.inf THEN Infinity
             ELSE NumRound(p.sig + (IF p.exp > 16 THEN 0 ELSE c \div (2^p.exp)), p.exp)

\* Math.abs
NumAbs(x) ==
    IF x.inf THEN Infinity
    ELSE [x EXCEPT !.sig = IF @ < 0 THEN 0 - @ ELSE @]

\* 2^exp % n, by squaring
RECURSIVE Pow2Mod(_, _)
Pow2Mod(exp, n) ==
    IF exp = 0 THEN 1 % n
    ELSE LET half == Pow2Mod(exp \div 2, n)
         IN  (half * half * (IF exp % 2 = 1 THEN 2 ELSE 1)) % n

\* x % n for x >= 0 and an integer n >= 1: Infinity % n is NaN
NumMod(x, n) ==
    IF x.inf THEN NaN
    ELSE ((x.sig % n) * Pow2Mod(x.exp, n)) % n

\* new Array(n): every slot empty, no other property
NewArray(n, empty) == [i \in (0..(n - 1)) \cup {NaN} |-> empty]

(***************************************************************************)
(* HashMap                                                                 *)
(***************************************************************************)
primeNumber == 31

Node(key, value) == [key |-> key, value |-> value]

HashMap_new(initialCapacity, loadFactor) ==
    [storage |-> NewArray(initialCapacity, <<>>),
     size |-> 0,
     capacity |-> initialCapacity,
     loadFactor |-> loadFactor]

\* the for loop of hash over the chars from..to of key, left to right
\* (split in halves to keep the evaluation shallow; once hashCode is
\* Infinity every further 31 * hashCode + c is Infinity)
RECURSIVE HashMap_hashLoop(_, _, _, _)
HashMap_hashLoop(key, from, to, hashCode) ==
    IF hashCode.inf \/ from > to THEN hashCode
    ELSE IF from = to THEN NumMulAdd(primeNumber, hashCode, key[from])
    ELSE LET mid == (from + to) \div 2
         IN  HashMap_hashLoop(key, mid + 1, to, HashMap_hashLoop(key, from, mid, hashCode))

\* hash is a pure function of the key: its value for each key of the model,
\* computed once
HashMap_hashTable == [key \in AllKeys |-> HashMap_hashLoop(key, 1, Len(key), Finite(0))]

HashMap_hash(key) == HashMap_hashTable[key]

HashMap_getIndex(this, hashCode) == NumMod(NumAbs(hashCode), this.capacity)

\* variant: the load is taken before the new node is counted
HashMap_shouldResize_stale(this) ==
    (this.size - 1) * this.loadFactor[2] > this.loadFactor[1] * this.capacity

\* variant: >= in place of >
HashMap_shouldResize_atThreshold(this) ==
    this.size * this.loadFactor[2] >= this.loadFactor[1] * this.capacity

\* variant: resizes at half the load factor
HashMap_shouldResize_half(this) ==
    2 * this.size * this.loadFactor[2] > this.loadFactor[1] * this.capacity

\* variant: resizes only when the entries outnumber the buckets
HashMap_shouldResize_full(this) ==
    this.size > this.capacity

\* (size / capacity) > loadFactor, with loadFactor = num / den
HashMap_shouldResize(this) ==
    this.size * this.loadFactor[2] > this.loadFactor[1] * this.capacity

\* The position of the first node of the chain holding key, 0 when none does.
RECURSIVE ChainFind(_, _, _)
ChainFind(chain, key, i) ==
    IF i > Len(chain) THEN 0
    ELSE IF chain[i].key = key THEN i
    ELSE ChainFind(chain, key, i + 1)

\* The nodes of buckets i..capacity-1, bucket by bucket, head to tail.
RECURSIVE HashMap_traverse(_, _)
HashMap_traverse(this, i) ==
    IF i >= this.capacity THEN <<>>
    ELSE this.storage[i] \o HashMap_traverse(this, i + 1)

HashMap_entries(this) ==
    LET nodes == HashMap_traverse(this, 0)
    IN  [n \in 1..Len(nodes) |-> <<nodes[n].key, nodes[n].value>>]

HashMap_keys(this) ==
    LET nodes == HashMap_traverse(this, 0)
    IN  [n \in 1..Len(nodes) |-> nodes[n].key]

HashMap_values(this) ==
    LET nodes == HashMap_traverse(this, 0)
    IN  [n \in 1..Len(nodes) |-> nodes[n].value]

RECURSIVE HashMap_set(_, _, _)
RECURSIVE HashMap_rehash(_, _, _)

\* the for loop of _resize over oldEntries, from entry i on; reading
\* this.size first has each insertion carried out before the next starts
HashMap_rehash(this, oldEntries, i) ==
    IF this.size < 0 \/ i > Len(oldEntries) THEN this
    ELSE HashMap_rehash(HashMap_set(this, oldEntries[i][1], oldEntries[i][2]),
                        oldEntries, i + 1)

\* variant: the capacity grows by two instead of doubling
HashMap_doubled_plusTwo(this) ==
    [this EXCEPT !.capacity = @ + 2,
                 !.storage = NewArray(this.capacity + 2, <<>>),
                 !.size = 0]

\* variant: the buckets of the old storage are carried over
HashMap_doubled_keepStorage(this) ==
    [this EXCEPT !.capacity = 2 * @,
                 !.storage = [i \in (0..(2 * this.capacity - 1)) \cup {NaN} |->
                                 IF i < this.capacity THEN this.storage[i] ELSE <<>>],
                 !.size = 0]

\* variant: the capacity is left as it is
HashMap_doubled_sameCapacity(this) ==
    [this EXCEPT !.storage = NewArray(this.capacity, <<>>),
                 !.size = 0]

HashMap_doubled(this) ==
    [this EXCEPT !.capacity = 2 * @,
                 !.storage = NewArray(2 * this.capacity, <<>>),
                 !.size = 0]

HashMap_resize(this) ==
    HashMap_rehash(HashMap_doubled(this), HashMap_entries(this), 1)

\* the end of set, reached only after a node was added
HashMap_afterInsert(this) ==
    IF HashMap_shouldResize(this) THEN HashMap_resize(this) ELSE this

\* variant: only the head of the chain is compared with key
HashMap_set_headOnly(this, key, value) ==
    LET index == HashMap_getIndex(this, HashMap_hash(key))
        chain == this.storage[index]
    IN  IF chain = <<>>
        THEN HashMap_afterInsert(
                 [this EXCEPT !.storage[index] = <<Node(key, value)>>,
                              !.size = @ + 1])
        ELSE IF chain[1].key = key
        THEN [this EXCEPT !.storage[index][1].value = value]
        ELSE HashMap_afterInsert(
                 [this EXCEPT !.storage[index] = Append(chain, Node(key, value)),
                              !.size = @ + 1])

\* variant: the walk stops before the tail, whose key is never compared
HashMap_set_missTail(this, key, value) ==
    LET index == HashMap_getIndex(this, HashMap_hash(key))
        chain == this.storage[index]
        found == ChainFind(chain, key, 1)
    IN  IF chain = <<>>
        THEN HashMap_afterInsert(
                 [this EXCEPT !.storage[index] = <<Node(key, value)>>,
                              !.size = @ + 1])
        ELSE IF found # 0 /\ (found = 1 \/ found < Len(chain))
        THEN [this EXCEPT !.storage[index][found].value = value]
        ELSE HashMap_afterInsert(
                 [this EXCEPT !.storage[index] = Append(chain, Node(key, value)),
                              !.size = @ + 1])

HashMap_set(this, key, value) ==
    LET index == HashMap_getIndex(this, HashMap_hash(key))
        chain == this.storage[index]
        found == ChainFind(chain, key, 1)
    IN  IF chain = <<>>
        THEN HashMap_afterInsert(
                 [this EXCEPT !.storage[index] = <<Node(key, value)>>,
                              !.size = @ + 1])
        ELSE IF found # 0
        THEN [this EXCEPT !.storage[index][found].value = value]
        ELSE HashMap_afterInsert(
                 [this EXCEPT !.storage[index] = Append(chain, Node(key, value)),
                              !.size = @ + 1])

HashMap_get(this, key) ==
    LET index == HashMap_getIndex(this, HashMap_hash(key))
        chain == this.storage[index]
        found == ChainFind(chain, key, 1)
    IN  IF chain = <<>> THEN null
        ELSE IF found # 0 THEN chain[found].value
        ELSE null

HashMap_has(this, key) ==
    LET index == HashMap_getIndex(this, HashMap_hash(key))
        chain == this.storage[index]
    IN  IF chain = <<>> THEN FALSE
        ELSE ChainFind(chain, key, 1) # 0

\* the chain without its node at position i
ChainUnlink(chain, i) ==
    SubSeq(chain, 1, i - 1) \o SubSeq(chain, i + 1, Len(chain))

\* variant: a node found behind the head is unlinked without size--
HashMap_remove_noDecrement(this, key) ==
    LET index == HashMap_getIndex(this, HashMap_hash(key))
        chain == this.storage[index]
        found == ChainFind(chain, key, 1)
    IN  IF chain = <<>> THEN [this |-> this, ret |-> FALSE]
        ELSE IF found = 1
        THEN [this |-> [this EXCEPT !.storage[index] = ChainUnlink(chain, found),
                                    !.size = @ - 1],
              ret |-> TRUE]
        ELSE IF found # 0
        THEN [this |-> [this EXCEPT !.storage[index] = ChainUnlink(chain, found)],
              ret |-> TRUE]
        ELSE [this |-> this, ret |-> FALSE]

\* remove returns a boolean and changes the object: [this, ret]
HashMap_remove(this, key) ==
    LET index == HashMap_getIndex(this, HashMap_hash(key))
        chain == this.storage[index]
        found == ChainFind(chain, key, 1)
    IN  IF chain = <<>> THEN [this |-> this, ret |-> FALSE]
        ELSE IF found # 0
        THEN [this |-> [this EXCEPT !.storage[index] = ChainUnlink(chain, found),
                                    !.size = @ - 1],
              ret |-> TRUE]
        ELSE [this |-> this, ret |-> FALSE]

HashMap_length(this) == this.size

HashMap_clear(this) ==
    [this EXCEPT !.storage = NewArray(this.capacity, <<>>),
                 !.size = 0]

(***************************************************************************)
(* HashSet                                                                 *)
(***************************************************************************)
\* A bucket of the HashSet: undefined, or a JS Set with its elements in
\* insertion order.
undefined == [defined |-> FALSE, elems |-> <<>>]
NewSet == [defined |-> TRUE, elems |-> <<>>]

\* Set.prototype.has
JsSet_has(s, key) == \E n \in 1..Len(s.elems) : s.elems[n] = key

\* variant: a new key goes to the front of the iteration order
JsSet_add_front(s, key) ==
    IF JsSet_has(s, key) THEN s ELSE [s EXCEPT !.elems = <<key>> \o @]

\* Set.prototype.add
JsSet_add(s, key) ==
    IF JsSet_has(s, key) THEN s ELSE [s EXCEPT !.elems = Append(@, key)]

\* Set.prototype.delete
JsSet_delete(s, key) ==
    [s EXCEPT !.elems = SelectSeq(@, LAMBDA e : e # key)]

HashSet_new(initialCapacity, loadFactor) ==
    [storage |-> NewArray(initialCapacity, undefined),
     size |-> 0,
     capacity |-> initialCapacity,
     loadFactor |-> loadFactor]

\* the for loop of hash over the chars from..to of key, left to right
\* (split in halves to keep the evaluation shallow; once hashCode is
\* Infinity every further 31 * hashCode + c is Infinity)
RECURSIVE HashSet_hashLoop(_, _, _, _)
HashSet_hashLoop(key, from, to, hashCode) ==
    IF hashCode.inf \/ from > to THEN hashCode
    ELSE IF from = to THEN NumMulAdd(primeNumber, hashCode, key[from])
    ELSE LET mid == (from + to) \div 2
         IN  HashSet_hashLoop(key, mid + 1, to, HashSet_hashLoop(key, from, mid, hashCode))

\* hash is a pure function of the key: its value for each key of the model,
\* computed once
HashSet_hashTable == [key \in AllKeys |-> HashSet_hashLoop(key, 1, Len(key), Finite(0))]

HashSet_hash(key) == HashSet_hashTable[key]

HashSet_getIndex(this, hashCode) == NumMod(NumAbs(hashCode), this.capacity)

HashSet_shouldResize(this) ==
    this.size * this.loadFactor[2] > this.loadFactor[1] * this.capacity

RECURSIVE HashSet_traverse(_, _)
HashSet_traverse(this, i) ==
    IF i >= this.capacity THEN <<>>
    ELSE (IF this.storage[i].defined THEN this.storage[i].elems ELSE <<>>)
         \o HashSet_traverse(this, i + 1)

HashSet_keys(this) == HashSet_traverse(this, 0)

RECURSIVE HashSet_add(_, _)
RECURSIVE HashSet_rehash(_, _, _)

\* the for loop of _resize over oldKeys, from key i on; reading this.size
\* first has each insertion carried out before the next starts
HashSet_rehash(this, oldKeys, i) ==
    IF this.size < 0 \/ i > Len(oldKeys) THEN this
    ELSE HashSet_rehash(HashSet_add(this, oldKeys[i]), oldKeys, i + 1)

HashSet_doubled(this) ==
    [this EXCEPT !.capacity = 2 * @,
                 !.storage = NewArray(2 * this.capacity, undefined),
                 !.size = 0]

HashSet_resize(this) ==
    HashSet_rehash(HashSet_doubled(this), HashSet_keys(this), 1)

\* the end of add, reached by every call
HashSet_afterAdd(this) ==
    IF HashSet_shouldResize(this) THEN HashSet_resize(this) ELSE this

\* variant: size counts every add, also of a key the bucket has
HashSet_add_countAll(this, key) ==
    LET index == HashSet_getIndex(this, HashSet_hash(key))
        withBucket ==
            IF ~this.storage[index].defined
            THEN [this EXCEPT !.storage[index] = NewSet]
            ELSE this
        withKey ==
            [withBucket EXCEPT !.storage[index] =
                                   IF JsSet_has(@, key) THEN @ ELSE JsSet_add(@, key),
                               !.size = @ + 1]
    IN  HashSet_afterAdd(withKey)

HashSet_add(this, key) ==
    LET index == HashSet_getIndex(this, HashSet_hash(key))
        withBucket ==
            IF ~this.storage[index].defined
            THEN [this EXCEPT !.storage[index] = NewSet]
            ELSE this
        withKey ==
            IF ~JsSet_has(withBucket.storage[index], key)
            THEN [withBucket EXCEPT !.storage[index] = JsSet_add(@, key),
                                    !.size = @ + 1]
            ELSE withBucket
    IN  HashSet_afterAdd(withKey)

HashSet_has(this, key) ==
    LET index == HashSet_getIndex(this, HashSet_hash(key))
    IN  IF this.storage[index].defined
        THEN JsSet_has(this.storage[index], key)
        ELSE FALSE

\* variant: the bucket is not asked whether it has the key
HashSet_remove_unchecked(this, key) ==
    LET index == HashSet_getIndex(this, HashSet_hash(key))
    IN  IF this.storage[index].defined
        THEN [this |-> [this EXCEPT !.storage[index] = JsSet_delete(@, key),
                                    !.size = @ - 1],
              ret |-> TRUE]
        ELSE [this |-> this, ret |-> FALSE]

HashSet_remove(this, key) ==
    LET index == HashSet_getIndex(this, HashSet_hash(key))
    IN  IF this.storage[index].defined /\ JsSet_has(this.storage[index], key)
        THEN [this |-> [this EXCEPT !.storage[index] = JsSet_delete(@, key),
                                    !.size = @ - 1],
              ret |-> TRUE]
        ELSE [this |-> this, ret |-> FALSE]

HashSet_length(this) == this.size

\* variant: only the size counter is reset
HashSet_clear_sizeOnly(this) == [this EXCEPT !.size = 0]

HashSet_clear(this) ==
    [this EXCEPT !.storage = NewArray(this.capacity, undefined),
                 !.size = 0]

(***************************************************************************)
(* The state machine.  A caller builds one HashMap and one HashSet with    *)
(* the same arguments and then calls the public methods; a step is one     *)
(* call on the map together with the same call on the set (set(key,value)  *)
(* going with add(key)), run to its return.  Every sequence of calls on    *)
(* either container alone is the projection of such a run.                 *)
(*   op   the call just made: its name and arguments                       *)
(*   ret  what the call returned, for the map and for the set              *)
(*   pre  the two objects as they were when the call was made              *)
(*   stack  the calls in progress, innermost first; empty between calls    *)
(***************************************************************************)
VARIABLES hashMap, hashSet, initialCapacity, op, ret, pre, stack

vars == <<hashMap, hashSet, initialCapacity, op, ret, pre, stack>>

none == "none"
noKey == <<>>

Call(name, key, value) == [name |-> name, key |-> key, value |-> value]

Init ==
    \E cap \in InitialCapacities, lf \in LoadFactors :
        /\ hashMap = HashMap_new(cap, lf)
        /\ hashSet = HashSet_new(cap, lf)
        /\ initialCapacity = cap
        /\ op = Call("new", noKey, none)
        /\ ret = [map |-> none, set |-> none]
        /\ pre = [map |-> HashMap_new(cap, lf), set |-> HashSet_new(cap, lf)]
        /\ stack = <<>>

Snapshot == pre' = [map |-> hashMap, set |-> hashSet]

\* map.set(key, value) and set.add(key)
Set(key, value) ==
    /\ hashMap' = HashMap_set(hashMap, key, value)
    /\ hashSet' = HashSet_add(hashSet, key)
    /\ op' = Call("set", key, value)
    /\ ret' = [map |-> none, set |-> none]
    /\ Snapshot
    /\ UNCHANGED <<initialCapacity, stack>>

Remove(key) ==
    /\ hashMap' = HashMap_remove(hashMap, key).this
    /\ hashSet' = HashSet_remove(hashSet, key).this
    /\ op' = Call("remove", key, none)
    /\ ret' = [map |-> HashMap_remove(hashMap, key).ret,
               set |-> HashSet_remove(hashSet, key).ret]
    /\ Snapshot
    /\ UNCHANGED <<initialCapacity, stack>>

Clear ==
    /\ hashMap' = HashMap_clear(hashMap)
    /\ hashSet' = HashSet_clear(hashSet)
    /\ op' = Call("clear", noKey, none)
    /\ ret' = [map |-> none, set |-> none]
    /\ Snapshot
    /\ UNCHANGED <<initialCapacity, stack>>

\* map.get(key); the HashSet has no get
Get(key) ==
    /\ op' = Call("get", key, none)
    /\ ret' = [map |-> HashMap_get(hashMap, key), set |-> none]
    /\ Snapshot
    /\ UNCHANGED <<hashMap, hashSet, initialCapacity, stack>>

Has(key) ==
    /\ op' = Call("has", key, none)
    /\ ret' = [map |-> HashMap_has(hashMap, key), set |-> HashSet_has(hashSet, key)]
    /\ Snapshot
    /\ UNCHANGED <<hashMap, hashSet, initialCapacity, stack>>

Length ==
    /\ op' = Call("length", noKey, none)
    /\ ret' = [map |-> HashMap_length(hashMap), set |-> HashSet_length(hashSet)]
    /\ Snapshot
    /\ UNCHANGED <<hashMap, hashSet, initialCapacity, stack>>

KeysOf ==
    /\ op' = Call("keys", noKey, none)
    /\ ret' = [map |-> HashMap_keys(hashMap), set |-> HashSet_keys(hashSet)]
    /\ Snapshot
    /\ UNCHANGED <<hashMap, hashSet, initialCapacity, stack>>

\* map.values(); the HashSet has no values
ValuesOf ==
    /\ op' = Call("values", noKey, none)
    /\ ret' = [map |-> HashMap_values(hashMap), set |-> none]
    /\ Snapshot
    /\ UNCHANGED <<hashMap, hashSet, initialCapacity, stack>>

\* map.entries(); the HashSet has no entries
EntriesOf ==
    /\ op' = Call("entries", noKey, none)
    /\ ret' = [map |-> HashMap_entries(hashMap), set |-> none]
    /\ Snapshot
    /\ UNCHANGED <<hashMap, hashSet, initialCapacity, stack>>

Next ==
    \/ \E key \in Keys, value \in Values : Set(key, value)
    \/ \E key \in Keys : Remove(key)
    \/ Clear
    \/ \E key \in Keys : Get(key)
    \/ \E key \in Keys : Has(key)
    \/ Length
    \/ KeysOf
    \/ ValuesOf
    \/ EntriesOf

Spec == Init /\ [][Next]_vars

(***************************************************************************)
(* The threshold scenario of main.js: the containers are built with        *)
(* initialCapacity 16 and loadFactor 0.75 and only set (add) is called,    *)
(* with new keys and with keys already present, in any order.              *)
(***************************************************************************)
ScenarioCapacity == 16
ScenarioLoadFactor == <<3, 4>>

InitScenario ==
    /\ hashMap = HashMap_new(ScenarioCapacity, ScenarioLoadFactor)
    /\ hashSet = HashSet_new(ScenarioCapacity, ScenarioLoadFactor)
    /\ initialCapacity = ScenarioCapacity
    /\ op = Call("new", noKey, none)
    /\ ret = [map |-> none, set |-> none]
    /\ pre = [map |-> HashMap_new(ScenarioCapacity, ScenarioLoadFactor),
              set |-> HashSet_new(ScenarioCapacity, ScenarioLoadFactor)]
    /\ stack = <<>>

NextScenario == \E key \in ScenarioKeys : Set(key, "red")

SpecScenario == InitScenario /\ [][NextScenario]_vars

(***************************************************************************)
(* The calls step by step.  A frame of stack is one call in progress: the  *)
(* object it runs on (target), the method (name), where it stands (pc),    *)
(* its arguments, and the array and the index of its loop (old, i).  The   *)
(* caller makes a call on the map and then the same call on the set; set   *)
(* and add call _resize, whose loop calls set and add again.               *)
(*   pc "insert"   set/add before its first statement                      *)
(*   pc "resized"  set/add waiting for the _resize it called               *)
(*   pc "rehash"   _resize in its for loop, at oldEntries[i]               *)
(*   pc "walk"     get/has/remove at node i of the chain                   *)
(*   pc "buckets"  keys at bucket i, old the keys collected so far         *)
(*   pc "direct"   a method without a loop of its own                      *)
(* What a call returns is not recorded here: ret stays as Begin sets it.   *)
(* The engine's stack is finite: at MaxCallDepth frames no call is made.   *)
(***************************************************************************)
MaxCallDepth == 8

Frame(target, name, pc, key, value, old, i) ==
    [target |-> target, name |-> name, pc |-> pc,
     key |-> key, value |-> value, old |-> old, i |-> i]

\* set up to its resize check: the object, and whether a node was added
HashMap_insert(this, key, value) ==
    LET index == HashMap_getIndex(this, HashMap_hash(key))
        chain == this.storage[index]
        found == ChainFind(chain, key, 1)
    IN  IF chain = <<>>
        THEN [this |-> [this EXCEPT !.storage[index] = <<Node(key, value)>>,
                                    !.size = @ + 1],
              added |-> TRUE]
        ELSE IF found # 0
        THEN [this |-> [this EXCEPT !.storage[index][found].value = value],
              added |-> FALSE]
        ELSE [this |-> [this EXCEPT !.storage[index] = Append(chain, Node(key, value)),
                                    !.size = @ + 1],
              added |-> TRUE]

\* add up to its resize check
HashSet_insert(this, key) ==
    LET index == HashSet_getIndex(this, HashSet_hash(key))
        withBucket ==
            IF ~this.storage[index].defined
            THEN [this EXCEPT !.storage[index] = NewSet]
            ELSE this
    IN  IF ~JsSet_has(withBucket.storage[index], key)
        THEN [withBucket EXCEPT !.storage[index] = JsSet_add(@, key),
                                !.size = @ + 1]
        ELSE withBucket

Running == stack # <<>>
Top == Head(stack)
Return == stack' = Tail(stack)
Goto(frame) == stack' = <<frame>> \o Tail(stack)
Invoke(callee, caller) ==
    /\ Len(stack) < MaxCallDepth
    /\ stack' = <<callee, caller>> \o Tail(stack)

\* the frame a public call of the HashMap starts in
MapFrame(name, key, value) ==
    CASE name = "set" -> Frame("map", name, "insert", key, value, <<>>, 0)
      [] name \in {"get", "has", "remove"} ->
             Frame("map", name, "walk", key, value, <<>>, 1)
      [] name = "keys" -> Frame("map", name, "buckets", key, value, <<>>, 0)
      [] name = "clear" -> Frame("map", name, "direct", key, value, <<>>, 0)

\* the frame a public call of the HashSet starts in; set goes with add
SetFrame(name, key) ==
    CASE name = "set" -> Frame("set", "add", "insert", key, none, <<>>, 0)
      [] name \in {"has", "remove", "clear"} ->
             Frame("set", name, "direct", key, none, <<>>, 0)
      [] name = "keys" -> Frame("set", name, "buckets", key, none, <<>>, 0)

\* the caller, between calls, calls name on the map and then on the set
Begin(name, key, value) ==
    /\ ~Running
    /\ stack' = IF name = "get"
                THEN <<MapFrame(name, key, value)>>
                ELSE <<MapFrame(name, key, value), SetFrame(name, key)>>
    /\ op' = Call(name, key, value)
    /\ ret' = [map |-> none, set |-> none]
    /\ Snapshot
    /\ UNCHANGED <<hashMap, hashSet, initialCapacity>>

\* set: the node is stored or updated, then _shouldResize and _resize;
\* add: the key is stored unless present, then _shouldResize and _resize
StepInsert ==
    /\ Running
    /\ Top.pc = "insert"
    /\ IF Top.target = "map"
       THEN LET r == HashMap_insert(hashMap, Top.key, Top.value)
            IN  /\ IF r.added /\ HashMap_shouldResize(r.this)
                   THEN /\ hashMap' = HashMap_doubled(r.this)
                        /\ Invoke(Frame("map", "_resize", "rehash", noKey, none,
                                        HashMap_entries(r.this), 1),
                                  [Top EXCEPT !.pc = "resized"])
                   ELSE /\ hashMap' = r.this
                        /\ Return
                /\ UNCHANGED hashSet
       ELSE LET s == HashSet_insert(hashSet, Top.key)
            IN  /\ IF HashSet_shouldResize(s)
                   THEN /\ hashSet' = HashSet_doubled(s)
                        /\ Invoke(Frame("set", "_resize", "rehash", noKey, none,
                                        HashSet_keys(s), 1),
                                  [Top EXCEPT !.pc = "resized"])
                   ELSE /\ hashSet' = s
                        /\ Return
                /\ UNCHANGED hashMap
    /\ UNCHANGED <<initialCapacity, op, ret, pre>>

\* one round of the for loop of _resize: this.set / this.add of old[i]
StepRehash ==
    /\ Running
    /\ Top.pc = "rehash"
    /\ IF Top.i <= Len(Top.old)
       THEN Invoke(IF Top.target = "map"
                   THEN Frame("map", "set", "insert",
                              Top.old[Top.i][1], Top.old[Top.i][2], <<>>, 0)
                   ELSE Frame("set", "add", "insert", Top.old[Top.i], none, <<>>, 0),
                   [Top EXCEPT !.i = @ + 1])
       ELSE Return
    /\ UNCHANGED <<hashMap, hashSet, initialCapacity, op, ret, pre>>

\* _resize has returned to the set/add that called it, which returns
StepResized ==
    /\ Running
    /\ Top.pc = "resized"
    /\ Return
    /\ UNCHANGED <<hashMap, hashSet, initialCapacity, op, ret, pre>>

\* get/has/remove of the HashMap at node i of the chain of key
StepWalk ==
    /\ Running
    /\ Top.pc = "walk"
    /\ LET index == HashMap_getIndex(hashMap, HashMap_hash(Top.key))
           chain == hashMap.storage[index]
       IN  IF Top.i > Len(chain)
           THEN /\ Return
                /\ UNCHANGED hashMap
           ELSE IF chain[Top.i].key = Top.key
           THEN /\ Return
                /\ hashMap' = IF Top.name = "remove"
                              THEN [hashMap EXCEPT
                                        !.storage[index] = ChainUnlink(chain, Top.i),
                                        !.size = @ - 1]
                              ELSE hashMap
           ELSE /\ Goto([Top EXCEPT !.i = @ + 1])
                /\ UNCHANGED hashMap
    /\ UNCHANGED <<hashSet, initialCapacity, op, ret, pre>>

\* keys at bucket i: the keys of the bucket are pushed, or the array returned
StepBuckets ==
    /\ Running
    /\ Top.pc = "buckets"
    /\ IF Top.target = "map"
       THEN IF Top.i < hashMap.capacity
            THEN /\ Goto([Top EXCEPT
                              !.old = @ \o [n \in 1..Len(hashMap.storage[Top.i]) |->
                                                hashMap.storage[Top.i][n].key],
                              !.i = @ + 1])
            ELSE Return
       ELSE IF Top.i < hashSet.capacity
            THEN /\ Goto([Top EXCEPT !.old = @ \o hashSet.storage[Top.i].elems,
                                     !.i = @ + 1])
            ELSE Return
    /\ UNCHANGED <<hashMap, hashSet, initialCapacity, op, ret, pre>>

\* clear of either object, has and remove of the HashSet
StepDirect ==
    /\ Running
    /\ Top.pc = "direct"
    /\ Return
    /\ IF Top.target = "map"
       THEN /\ hashMap' = HashMap_clear(hashMap)
            /\ UNCHANGED hashSet
       ELSE CASE Top.name = "clear" ->
                     /\ hashSet' = HashSet_clear(hashSet)
                     /\ UNCHANGED hashMap
              [] Top.name = "has" ->
                     UNCHANGED <<hashMap, hashSet>>
              [] Top.name = "remove" ->
                     /\ hashSet' = HashSet_remove(hashSet, Top.key).this
                     /\ UNCHANGED hashMap
    /\ UNCHANGED <<initialCapacity, op, ret, pre>>

\* the running call goes on
Steps ==
    \/ StepInsert
    \/ StepRehash
    \/ StepResized
    \/ StepWalk
    \/ StepBuckets
    \/ StepDirect

NextSteps ==
    \/ \E key \in Keys, value \in Values : Begin("set", key, value)
    \/ \E name \in {"get", "has", "remove"}, key \in Keys : Begin(name, key, none)
    \/ \E name \in {"keys", "clear"} : Begin(name, noKey, none)
    \/ Steps

\* a call in progress is run on (every step of it changes stack): nothing
\* else runs, and nothing suspends it
SpecSteps == Init /\ [][NextSteps]_vars /\ WF_stack(Steps)

(***************************************************************************)
(* Properties.  They are stated on the state a call leaves: op and ret     *)
(* say which call returned and what it returned, pre what it started from. *)
(***************************************************************************)
\* the chain of the bucket that key hashes to
MapChain(this, key) == this.storage[HashMap_getIndex(this, HashMap_hash(key))]
SetBucket(this, key) == this.storage[HashSet_getIndex(this, HashSet_hash(key))]

\* the number of nodes holding key, over every bucket of storage
RECURSIVE CountIn(_, _, _)
CountIn(chain, key, i) ==
    IF i > Len(chain) THEN 0
    ELSE (IF chain[i].key = key THEN 1 ELSE 0) + CountIn(chain, key, i + 1)

RECURSIVE SumOver(_, _, _)
SumOver(this, key, indices) ==
    IF indices = {} THEN 0
    ELSE LET i == CHOOSE j \in indices : TRUE
         IN  CountIn(this.storage[i], key, 1) + SumOver(this, key, indices \ {i})

NodesWithKey(this, key) == SumOver(this, key, DOMAIN this.storage)

Resized == hashMap.capacity > pre.map.capacity

\* c = base * 2^n for some n >= 0
RECURSIVE IsDoubling(_, _)
IsDoubling(c, base) ==
    \/ c = base
    \/ c > base /\ c % 2 = 0 /\ IsDoubling(c \div 2, base)

\* C1: right after set(k, v) returns, get(k) is v and has(k) is true, also
\* when the call inserted a new key and resized.
C1_RoundTrip ==
    op.name = "set" =>
        /\ HashMap_get(hashMap, op.key) = op.value
        /\ HashMap_has(hashMap, op.key)

\* C2: set(k, v2) on a key already present (head, middle or tail of its
\* chain) leaves length() and capacity as they were, get(k) is v2 afterwards
\* and exactly one node holds k.
C2_UpdateInPlace ==
    (op.name = "set" /\ HashMap_has(pre.map, op.key)) =>
        /\ HashMap_length(hashMap) = HashMap_length(pre.map)
        /\ hashMap.capacity = pre.map.capacity
        /\ HashMap_get(hashMap, op.key) = op.value
        /\ NodesWithKey(hashMap, op.key) = 1

\* a value was replaced in the middle node of a chain of three
C2_Witness ==
    /\ op.name = "set"
    /\ Len(MapChain(pre.map, op.key)) = 3
    /\ MapChain(pre.map, op.key)[2].key = op.key
    /\ MapChain(pre.map, op.key)[2].value # op.value
    /\ HashMap_get(hashMap, op.key) = op.value

\* C3: remove(k) of a present key returns true, has(k) is false afterwards
\* and length() is one less; for the HashMap and for the HashSet, wherever k
\* stands in its chain.
C3_RemovePresent ==
    /\ (op.name = "remove" /\ HashMap_has(pre.map, op.key)) =>
           /\ ret.map = TRUE
           /\ ~HashMap_has(hashMap, op.key)
           /\ HashMap_length(hashMap) = HashMap_length(pre.map) - 1
    /\ (op.name = "remove" /\ HashSet_has(pre.set, op.key)) =>
           /\ ret.set = TRUE
           /\ ~HashSet_has(hashSet, op.key)
           /\ HashSet_length(hashSet) = HashSet_length(pre.set) - 1

\* the middle node of a chain of three was removed, its neighbours kept
C3_Witness ==
    /\ op.name = "remove"
    /\ Len(MapChain(pre.map, op.key)) = 3
    /\ MapChain(pre.map, op.key)[2].key = op.key
    /\ ret.map = TRUE
    /\ ret.set = TRUE
    /\ Len(MapChain(hashMap, op.key)) = 2
    /\ Len(SetBucket(hashSet, op.key).elems) = 2

\* C4: remove(k) of an absent key returns false and leaves size, capacity
\* and the stored entries as they were; for the HashMap and for the HashSet.
C4_RemoveAbsent ==
    /\ (op.name = "remove" /\ ~HashMap_has(pre.map, op.key)) =>
           /\ ret.map = FALSE
           /\ hashMap = pre.map
    /\ (op.name = "remove" /\ ~HashSet_has(pre.set, op.key)) =>
           /\ ret.set = FALSE
           /\ hashSet = pre.set

\* an absent key was removed from a bucket that holds other keys
C4_Witness ==
    /\ op.name = "remove"
    /\ ~HashMap_has(pre.map, op.key)
    /\ ~HashSet_has(pre.set, op.key)
    /\ Len(MapChain(pre.map, op.key)) >= 1
    /\ Len(SetBucket(pre.set, op.key).elems) >= 1
    /\ ret.map = FALSE
    /\ ret.set = FALSE

\* size / capacity <= loadFactor
LoadWithinFactor(this) ==
    this.size * this.loadFactor[2] <= this.loadFactor[1] * this.capacity

\* C5: whenever a public call has returned, size / capacity <= loadFactor,
\* for the HashMap and for the HashSet.
C5_LoadFactorBound ==
    /\ LoadWithinFactor(hashMap)
    /\ LoadWithinFactor(hashSet)

\* an insertion resized both containers and left at least two entries
C5_Witness ==
    /\ op.name = "set"
    /\ Resized
    /\ hashSet.capacity > pre.set.capacity
    /\ hashMap.size >= 2
    /\ hashSet.size >= 2

\* C6: size is the number of entries that the traversal of buckets
\* 0..capacity-1 reaches: length() = Len(keys()).
C6_SizeIsKeyCount ==
    /\ HashMap_length(hashMap) = Len(HashMap_keys(hashMap))
    /\ HashSet_length(hashSet) = Len(HashSet_keys(hashSet))

\* what get returns for a key that is absent
AbsentResult == HashMap_get(HashMap_new(1, <<1, 1>>), LongKey)

\* C7: the result of get for an absent key is not the result of get for any
\* present key, so get alone tells absent from present.
C7_AbsentDistinct ==
    \A key \in Keys :
        HashMap_has(hashMap, key) => HashMap_get(hashMap, key) # AbsentResult

\* C8: capacity never decreases, a call leaves it at a doubling (one or more)
\* of what it was and so at initialCapacity * 2^n, and only a set/add of a
\* key that was absent changes it.
C8_CapacityMonotone ==
    /\ hashMap.capacity >= pre.map.capacity
    /\ IsDoubling(hashMap.capacity, pre.map.capacity)
    /\ IsDoubling(hashMap.capacity, initialCapacity)
    /\ hashMap.capacity # pre.map.capacity =>
           (op.name = "set" /\ ~HashMap_has(pre.map, op.key))
    /\ hashSet.capacity >= pre.set.capacity
    /\ IsDoubling(hashSet.capacity, pre.set.capacity)
    /\ IsDoubling(hashSet.capacity, initialCapacity)
    /\ hashSet.capacity # pre.set.capacity =>
           (op.name = "set" /\ ~HashSet_has(pre.set, op.key))

\* an insertion doubled the capacity of both containers
C8_Witness ==
    /\ op.name = "set"
    /\ hashMap.capacity = 2 * pre.map.capacity
    /\ hashSet.capacity = 2 * pre.set.capacity
    /\ hashMap.capacity > 2 * initialCapacity

\* C9: add(k) of an absent key raises length() by one, every further add(k)
\* by nothing, and has(k) is true after each.
C9_AddOnce ==
    op.name = "set" =>
        /\ HashSet_has(hashSet, op.key)
        /\ HashSet_length(hashSet) =
               HashSet_length(pre.set)
                   + (IF HashSet_has(pre.set, op.key) THEN 0 ELSE 1)

RECURSIVE ElemsOver(_, _, _)
ElemsOver(this, key, indices) ==
    IF indices = {} THEN 0
    ELSE LET i == CHOOSE j \in indices : TRUE
         IN  Cardinality({n \in 1..Len(this.storage[i].elems) :
                              this.storage[i].elems[n] = key})
             + ElemsOver(this, key, indices \ {i})

ElemsWithKey(this, key) == ElemsOver(this, key, DOMAIN this.storage)

\* the number of positions of a sequence of keys that hold key
Occurrences(keys, key) == Cardinality({n \in 1..Len(keys) : keys[n] = key})

\* C11: no key is held more than once in the whole table, in one bucket or
\* in two, so keys() holds no duplicate; across resizes and re-insertions.
C11_KeysUnique ==
    \A key \in Keys :
        /\ NodesWithKey(hashMap, key) <= 1
        /\ Occurrences(HashMap_keys(hashMap), key) <= 1
        /\ ElemsWithKey(hashSet, key) <= 1
        /\ Occurrences(HashSet_keys(hashSet), key) <= 1

\* a resize re-inserted three keys into the doubled table, each once
C11_Witness ==
    /\ op.name = "set"
    /\ Resized
    /\ hashMap.size = 3
    /\ hashSet.size = 3
    /\ \A key \in ShortKeys :
           NodesWithKey(hashMap, key) = 1 /\ ElemsWithKey(hashSet, key) = 1

\* C12: with initialCapacity 16 and loadFactor 0.75 and only set called,
\* capacity is 16 as long as no more than 12 distinct keys were set (size
\* <= 12, at 12 too) and becomes 32 in the very call that sets the 13th;
\* setting a key already present never resizes.
C12_Threshold ==
    /\ hashMap.capacity = 16 => hashMap.size <= 12
    /\ (op.name = "set" /\ pre.map.capacity = 16) =>
           IF pre.map.size = 12 /\ ~HashMap_has(pre.map, op.key)
           THEN hashMap.capacity = 32
           ELSE hashMap.capacity = 16
    /\ pre.map.capacity # 16 => hashMap.capacity = 32

\* the 13th distinct key was set: 13/16 > 0.75 and the capacity is 32
C12_Witness ==
    /\ op.name = "set"
    /\ pre.map.size = 12
    /\ pre.map.capacity = 16
    /\ hashMap.size = 13
    /\ hashMap.capacity = 32
    /\ Len(HashMap_keys(hashMap)) = 13

\* the capacity after the call is the one before it, or twice that
AtMostDoubled(this, before) ==
    this.capacity \in {before.capacity, 2 * before.capacity}

\* 2 * capacity * loadFactor >= 1: one entry does not overload the doubled table
OneEntryFits(this) ==
    2 * this.capacity * this.loadFactor[1] >= this.loadFactor[2]

\* C13 as stated: a single set/add call changes the capacity from c to c or
\* to 2c, never to 4c or more, for every initialCapacity and loadFactor.
C13_NoNestedResize ==
    op.name = "set" =>
        /\ AtMostDoubled(hashMap, pre.map)
        /\ AtMostDoubled(hashSet, pre.set)

\* C13 amended: a single set/add call on a container of capacity c with
\* 2 * c * loadFactor >= 1 changes the capacity to c or to 2c; below that,
\* the re-insertion of a single entry resizes again.
C13_NoNestedResizeWhenOneFits ==
    op.name = "set" =>
        /\ OneEntryFits(pre.map) => AtMostDoubled(hashMap, pre.map)
        /\ OneEntryFits(pre.set) => AtMostDoubled(hashSet, pre.set)

\* a set that resized and re-inserted at least two entries
C13_Witness ==
    /\ op.name = "set"
    /\ OneEntryFits(pre.map)
    /\ hashMap.capacity = 2 * pre.map.capacity
    /\ hashSet.capacity = 2 * pre.set.capacity
    /\ hashMap.size >= 2
    /\ hashSet.size >= 2

\* size / capacity <= loadFactor / 2
LoadWithinHalfFactor(size, this) ==
    2 * size * this.loadFactor[2] <= this.loadFactor[1] * this.capacity

\* C14 as stated: right after every resize, size / capacity <= loadFactor / 2.
C14_HalfLoadAfterResize ==
    /\ hashMap.capacity > pre.map.capacity => LoadWithinHalfFactor(hashMap.size, hashMap)
    /\ hashSet.capacity > pre.set.capacity => LoadWithinHalfFactor(hashSet.size, hashSet)

\* C14 amended: right after every resize, (size - 1) / capacity <=
\* loadFactor / 2: the entries held before the triggering insertion load the
\* doubled table to at most half the threshold, the inserted one comes on top.
C14_HalfLoadBeforeInserted ==
    /\ hashMap.capacity > pre.map.capacity =>
           LoadWithinHalfFactor(hashMap.size - 1, hashMap)
    /\ hashSet.capacity > pre.set.capacity =>
           LoadWithinHalfFactor(hashSet.size - 1, hashSet)

\* a resize has just completed and size / capacity is above loadFactor / 2
C14_Witness ==
    /\ op.name = "set"
    /\ hashMap.capacity > pre.map.capacity
    /\ hashSet.capacity > pre.set.capacity
    /\ hashMap.size >= 2
    /\ ~LoadWithinHalfFactor(hashMap.size, hashMap)
    /\ ~LoadWithinHalfFactor(hashSet.size, hashSet)

\* C15: set(k, v) and remove(k) leave get(j) and has(j) as they were for
\* every key j other than k, also when the set resizes the HashMap.
C15_Frame ==
    op.name \in {"set", "remove"} =>
        \A j \in Keys \ {op.key} :
            /\ HashMap_get(hashMap, j) = HashMap_get(pre.map, j)
            /\ HashMap_has(hashMap, j) = HashMap_has(pre.map, j)

\* C16: HashSet.add(k) of a key already present changes nothing: size,
\* capacity and the stored keys are those before the call (no resize).
C16_DuplicateAddNoOp ==
    (op.name = "set" /\ HashSet_has(pre.set, op.key)) => hashSet = pre.set

\* a present key was added again while size / capacity = loadFactor
C16_Witness ==
    /\ op.name = "set"
    /\ HashSet_has(pre.set, op.key)
    /\ pre.set.size >= 2
    /\ pre.set.size * pre.set.loadFactor[2] = pre.set.loadFactor[1] * pre.set.capacity
    /\ HashSet_keys(hashSet) = HashSet_keys(pre.set)

\* C18: after every step of the same call sequence (add(k) on the HashSet,
\* set(k, v) on the HashMap) the two agree on length(), capacity, has(k) for
\* every key, the boolean returned by remove, and keys() with its order.
C18_SetMirrorsMap ==
    /\ HashSet_length(hashSet) = HashMap_length(hashMap)
    /\ hashSet.capacity = hashMap.capacity
    /\ \A k \in Keys : HashSet_has(hashSet, k) = HashMap_has(hashMap, k)
    /\ op.name = "remove" => ret.set = ret.map
    /\ HashSet_keys(hashSet) = HashMap_keys(hashMap)

\* a key was removed after a resize, and one bucket holds two keys in order
C18_Witness ==
    /\ op.name = "remove"
    /\ ret.set = TRUE
    /\ hashSet.capacity > initialCapacity
    /\ \E i \in 0..(hashSet.capacity - 1) : Len(hashSet.storage[i].elems) >= 2

\* C19: the index _getIndex computes for the key of a set/add is an integer
\* with 0 <= index < capacity, for the hash of every key, the overflowed
\* hash of a long key included, so no entry is stored outside the buckets
\* 0..capacity-1 that keys(), entries() and the rehash visit.
C19_IndexInRange ==
    op.name = "set" =>
        /\ HashMap_getIndex(pre.map, HashMap_hash(op.key)) \in 0..(pre.map.capacity - 1)
        /\ HashSet_getIndex(pre.set, HashSet_hash(op.key)) \in 0..(pre.set.capacity - 1)
        /\ hashMap.storage[NaN] = <<>>
        /\ ~hashSet.storage[NaN].defined

\* C20: between public calls every node of the HashMap and every key of the
\* HashSet sits in the bucket _getIndex(hash(key)) gives for the current
\* capacity; none is left where an earlier capacity put it.
C20_Placement ==
    /\ \A i \in DOMAIN hashMap.storage :
           \A n \in 1..Len(hashMap.storage[i]) :
               HashMap_getIndex(hashMap, HashMap_hash(hashMap.storage[i][n].key)) = i
    /\ \A i \in DOMAIN hashSet.storage :
           \A n \in 1..Len(hashSet.storage[i].elems) :
               HashSet_getIndex(hashSet, HashSet_hash(hashSet.storage[i].elems[n])) = i

\* a resize moved a stored key to another bucket than the one it was in
C20_Witness ==
    /\ hashMap.capacity > pre.map.capacity
    /\ hashSet.capacity > pre.set.capacity
    /\ \E key \in ShortKeys \ {op.key} :
           /\ HashMap_has(hashMap, key)
           /\ HashSet_has(hashSet, key)
           /\ HashMap_getIndex(hashMap, HashMap_hash(key))
                  # HashMap_getIndex(pre.map, HashMap_hash(key))

\* the calls in progress include two _resize, one called from within the other
NestedResize ==
    \E m, n \in 1..Len(stack) :
        /\ m < n
        /\ stack[m].pc = "rehash"
        /\ stack[n].pc = "rehash"
        /\ stack[m].target = stack[n].target

\* a call that has returned step by step left the objects the call as a
\* whole leaves
StepsAgreeWithCalls ==
    ~Running =>
        CASE op.name = "set" ->
                 /\ hashMap = HashMap_set(pre.map, op.key, op.value)
                 /\ hashSet = HashSet_add(pre.set, op.key)
          [] op.name = "remove" ->
                 /\ hashMap = HashMap_remove(pre.map, op.key).this
                 /\ hashSet = HashSet_remove(pre.set, op.key).this
          [] op.name = "clear" ->
                 /\ hashMap = HashMap_clear(pre.map)
                 /\ hashSet = HashSet_clear(pre.set)
          [] OTHER ->
                 /\ hashMap = pre.map
                 /\ hashSet = pre.set

\* C17: every call of set/add, the re-entrant calls made by _resize
\* included, and of get, has, remove, keys and clear eventually returns:
\* whenever calls are in progress, later none is.
C17_Termination == Running ~> ~Running

\* _resize is running inside a set that another _resize called
C17_Witness ==
    /\ NestedResize
    /\ Top.pc = "insert"
    /\ Len(stack) >= 5

====
